---- MODULE Spec2Model ----
(***************************************************************************)
(* Depot / Area geometry of eflips-model (src/eflips/model/depot.py):      *)
(* the local projection of a depot, the length and width of an area, the   *)
(* placement of an area's bounding box, the tiling into parking spaces     *)
(* and the validation of a bounding box.                                   *)
(*                                                                         *)
(* Numbers.  The code computes in binary floating point.  Here a length    *)
(* is an integer number of centimetres; the results of Area.length and     *)
(* Area.width, which involve sin and cos, are integers in units of         *)
(* 1/FxScale cm, and sin and cos are tabulated in units of 1/FxScale.      *)
(* Angles are integer degrees.                                             *)
(***************************************************************************)
EXTENDS Integers, Sequences, FiniteSets, TLC

VARIABLES
    depot_bbox,         \* Depot.bounding_box: [present, ring], WGS84 grid
    area,               \* the attributes of the Area object
    area_bbox,          \* Area.bounding_box: [present, ring], WGS84 grid
    direct_area_angle,  \* Area.direct_area_angle (class attribute), degrees
    last                \* the most recent call and what it produced

vars == <<depot_bbox, area, area_bbox, direct_area_angle, last>>

----------------------------------------------------------------------------
(* Bounds of the model *)

\* capacities 1..MaxCapacity of the areas of the placement specification
MaxCapacity == 2
\* capacities 1..MaxDimCapacity of the areas of the sizing specification
MaxDimCapacity == 7
\* row counts 1..MaxRowCount
MaxRowCount == 3
\* capacities 1..MaxShapeCapacity of the areas of the shape specification
MaxShapeCapacity == 4
\* capacities -1..MaxStoreCapacity of the areas of the storage specification
MaxStoreCapacity == 4

----------------------------------------------------------------------------
(* Arithmetic *)

FxScale == 10000

Abs(x) == IF x < 0 THEN -x ELSE x

\* nearest integer to a / b, b > 0 (halves go up)
RoundDiv(a, b) == (2 * a + b) \div (2 * b)

\* math.cos, math.sin in units of 1/FxScale, argument in degrees
CosTable == [d \in {0, 30, 45, 60, 90} |->
               CASE d = 0 -> 10000 [] d = 30 -> 8660 [] d = 45 -> 7071
                 [] d = 60 -> 5000 [] d = 90 -> 0]
Cos(d) ==
    LET m == d % 360
        r == IF m > 180 THEN 360 - m ELSE m
    IN  IF r <= 90 THEN CosTable[r] ELSE -CosTable[180 - r]
Sin(d) == Cos(d - 90)

\* the angles (degrees, in (-180, 180]) that math.atan2 is resolved to
AngleGrid == {-150, -135, -120, -90, -60, -45, -30, 0, 30, 45, 60, 90, 120,
              135, 150, 180}

\* math.atan2(dy, dx), to the nearest angle of AngleGrid; atan2(0, 0) = 0
Atan2(dy, dx) ==
    IF dx = 0 /\ dy = 0 THEN 0
    ELSE CHOOSE d \in AngleGrid :
            \A e \in AngleGrid :
                dx * Cos(d) + dy * Sin(d) >= dx * Cos(e) + dy * Sin(e)

----------------------------------------------------------------------------
(* Outcomes of a call: a value, None, a boolean, a list of polygons, or a  *)
(* raised exception.                                                       *)

Value(v) == [kind |-> "value", val |-> v, err |-> "", polys |-> <<>>]
NoneOut == [kind |-> "none", val |-> 0, err |-> "", polys |-> <<>>]
Bool(b) == [kind |-> "bool", val |-> IF b THEN 1 ELSE 0, err |-> "", polys |-> <<>>]
List(ps) == [kind |-> "list", val |-> Len(ps), err |-> "", polys |-> ps]
Raise(e) == [kind |-> "raise", val |-> 0, err |-> e, polys |-> <<>>]
\* a single polygon, and the projection (given by the point it is centred on)
PolygonOut(ring) == [kind |-> "polygon", val |-> 0, err |-> "", polys |-> <<ring>>]
ProjectionOut(centre) ==
    [kind |-> "projection", val |-> 0, err |-> "", polys |-> << <<centre>> >>]

\* a call and its outcome; origin and angle are the arguments of
\* set_bounding_box_from_local
Call(op, out) == [op |-> op, out |-> out, origin |-> <<0, 0>>, angle |-> 0]

----------------------------------------------------------------------------
(* Area attributes *)

\* VehicleType.length / VehicleType.width are nullable; cm
NoVehicleType == [present |-> FALSE, has_dims |-> FALSE, length |-> 0, width |-> 0]
VehicleTypeNoDims == [present |-> TRUE, has_dims |-> FALSE, length |-> 0, width |-> 0]
Bus == [present |-> TRUE, has_dims |-> TRUE, length |-> 1200, width |-> 250]
Truck == [present |-> TRUE, has_dims |-> TRUE, length |-> 1800, width |-> 300]
\* a vehicle type for which a LINE area can come out square
Van == [present |-> TRUE, has_dims |-> TRUE, length |-> 550, width |-> 250]

AreaTypes == {"LINE", "DIRECT_ONESIDE", "DIRECT_TWOSIDE"}

\* Area objects as they exist in memory: a LINE area has a row_count (which
\* need not divide the capacity before the area is stored), a direct area
\* has none.
AreasOf(caps, vts) ==
    {[area_type |-> "LINE", capacity |-> c, has_row_count |-> TRUE,
      row_count |-> r, vehicle_type |-> vt] :
        c \in caps, r \in 1..MaxRowCount, vt \in vts}
    \cup
    {[area_type |-> t, capacity |-> c, has_row_count |-> FALSE,
      row_count |-> 0, vehicle_type |-> vt] :
        t \in {"DIRECT_ONESIDE", "DIRECT_TWOSIDE"}, c \in caps, vt \in vts}

\* Area.capacity_constraint ("capacity_validity_check")
CapacityConstraintOddAllowed(a) ==
    /\ a.capacity > 0
    /\ \/ a.area_type = "DIRECT_TWOSIDE" /\ ~a.has_row_count
       \/ a.area_type = "DIRECT_ONESIDE" /\ ~a.has_row_count
       \/ a.area_type = "LINE" /\ a.has_row_count
                                /\ a.capacity % a.row_count = 0
CapacityConstraint(a) ==
    /\ a.capacity > 0
    /\ \/ a.area_type = "DIRECT_TWOSIDE" /\ ~a.has_row_count
                                          /\ a.capacity % 2 = 0
       \/ a.area_type = "DIRECT_ONESIDE" /\ ~a.has_row_count
       \/ a.area_type = "LINE" /\ a.has_row_count
                                /\ a.capacity % a.row_count = 0

spacing == 50

PARK_ANGLE == 45

DirectAreaAngles == {30, 45}

----------------------------------------------------------------------------
(* Area.length, Area.width *)

\* vehicles_per_row = self.capacity // self.row_count
VehiclesPerRowSwapped(a) == a.row_count \div a.capacity
VehiclesPerRow(a) == a.capacity \div a.row_count

\* LINE branch of Area.length, units of 1/FxScale cm
LineLengthNoEndSpacing(a) ==
    (VehiclesPerRow(a) - 1) * spacing * FxScale
    + VehiclesPerRow(a) * a.vehicle_type.length * FxScale
LineLength(a) ==
    VehiclesPerRow(a) * spacing * FxScale
    + VehiclesPerRow(a) * a.vehicle_type.length * FxScale

\* stagger_distance = 2 * vehicle_width * cos(angle) + self.spacing
StaggerDistance(vt, ang) == 2 * vt.width * Cos(ang) + spacing * FxScale

\* DIRECT_ONESIDE branch of Area.length, units of 1/FxScale cm;
\* (capacity - 0.5) * s is computed as ((2 * capacity - 1) * s) / 2
OneSideLengthFullStagger(a, ang) ==
    a.capacity * StaggerDistance(a.vehicle_type, ang)
    + spacing * FxScale
    + Sin(ang) * a.vehicle_type.length
OneSideLength(a, ang) ==
    ((2 * a.capacity - 1) * StaggerDistance(a.vehicle_type, ang)) \div 2
    + spacing * FxScale
    + Sin(ang) * a.vehicle_type.length

\* Area.length
Length(a, ang) ==
    LET vt == a.vehicle_type
    IN  IF ~vt.present THEN NoneOut
        ELSE IF ang # PARK_ANGLE THEN Raise("ValueError:angle")
        ELSE IF a.area_type = "LINE" THEN
            IF ~a.has_row_count \/ ~vt.has_dims THEN Raise("TypeError")
            ELSE Value(LineLength(a))
        ELSE IF a.area_type = "DIRECT_ONESIDE" THEN
            IF ~vt.has_dims THEN Raise("TypeError")
            ELSE Value(OneSideLength(a, ang))
        ELSE Raise("NotImplementedError")

\* LINE branch of Area.width, units of 1/FxScale cm
LineWidth(a) ==
    LET effective_width == a.vehicle_type.width + spacing
    IN  effective_width * a.row_count * FxScale

\* DIRECT_ONESIDE branch of Area.width, units of 1/FxScale cm
OneSideWidth(a, ang) ==
    a.vehicle_type.length * Cos(ang) + a.vehicle_type.width * Sin(ang)
    + spacing * FxScale

\* Area.width
WidthFallingThrough(a, ang) ==
    LET vt == a.vehicle_type
    IN  IF ~vt.present THEN NoneOut
        ELSE IF a.area_type = "LINE" THEN
            IF ~vt.has_dims \/ ~a.has_row_count THEN Raise("TypeError")
            ELSE Value(LineWidth(a))
        ELSE IF a.area_type = "DIRECT_ONESIDE" THEN
            IF ~vt.has_dims THEN Raise("TypeError")
            ELSE Value(OneSideWidth(a, ang))
        ELSE NoneOut
Width(a, ang) ==
    LET vt == a.vehicle_type
    IN  IF ~vt.present THEN NoneOut
        ELSE IF a.area_type = "LINE" THEN
            IF ~vt.has_dims \/ ~a.has_row_count THEN Raise("TypeError")
            ELSE Value(LineWidth(a))
        ELSE IF a.area_type = "DIRECT_ONESIDE" THEN
            IF ~vt.has_dims THEN Raise("TypeError")
            ELSE Value(OneSideWidth(a, ang))
        ELSE Raise("NotImplementedError")

----------------------------------------------------------------------------
(* Polygons.  A point is <<x, y>>; a ring is the sequence of the exterior  *)
(* coordinates of a polygon, the first point repeated as the last.         *)

NoBox == [present |-> FALSE, ring |-> <<>>]
BoxOf(ring) == [present |-> TRUE, ring |-> ring]

\* list(polygon.exterior.coords)[:-1]
Coords(ring) == SubSeq(ring, 1, Len(ring) - 1)

\* shapely.geometry.box(minx, miny, maxx, maxy): counter-clockwise from
\* (maxx, miny)
ShapelyBox(minx, miny, maxx, maxy) ==
    << <<maxx, miny>>, <<maxx, maxy>>, <<minx, maxy>>, <<minx, miny>>,
       <<maxx, miny>> >>

\* shapely Polygon(points): the ring is closed
ShapelyPolygon(points) == Append(points, points[1])

Cross(u, v) == u[1] * v[2] - u[2] * v[1]
Minus(p, q) == <<p[1] - q[1], p[2] - q[2]>>

\* twice the signed area of a ring, coordinates taken relative to ring[1]
SignedArea2(ring) ==
    LET n == Len(ring) - 1
        term(i) == Cross(Minus(ring[i], ring[1]), Minus(ring[i + 1], ring[1]))
        acc[i \in 0..n] == IF i = 0 THEN 0 ELSE acc[i - 1] + term(i)
    IN  acc[n]

\* polygon.area, doubled
PolyArea2(ring) == Abs(SignedArea2(ring))

\* floor of the square root
RECURSIVE IsqrtBetween(_, _, _)
IsqrtBetween(n, lo, hi) ==
    IF lo >= hi THEN lo
    ELSE LET mid == (lo + hi + 1) \div 2
         IN  IF mid * mid <= n THEN IsqrtBetween(n, mid, hi)
             ELSE IsqrtBetween(n, lo, mid - 1)
Isqrt(n) == IsqrtBetween(n, 0, 46340)

\* area_poly.within(depot_poly) for a convex depot polygon: no vertex of
\* the area lies on the outer side of an edge of the depot
Within(area_ring, depot_ring) ==
    LET sign == IF SignedArea2(depot_ring) >= 0 THEN 1 ELSE -1
    IN  \A i \in 1..(Len(depot_ring) - 1) :
            \A j \in 1..(Len(area_ring) - 1) :
                sign * Cross(Minus(depot_ring[i + 1], depot_ring[i]),
                             Minus(area_ring[j], depot_ring[i])) >= 0

----------------------------------------------------------------------------
(* Depot.local_projection, global_to_local, local_to_global.               *)
(* WGS84 coordinates are integers on a grid of LonUnitsPerCm units per     *)
(* centimetre eastwards and LatUnitsPerCm units per centimetre northwards  *)
(* at the depot; the local frame is in centimetres and has its origin at   *)
(* the centroid of the depot's bounding box.                               *)

LonUnitsPerCm == 3
LatUnitsPerCm == 2

\* grid step of the depot bounding boxes the model uses
DepotGrid == 1000

\* geom.centroid of the depot's polygon (area-weighted), on the WGS84 grid
Centroid(ring) ==
    LET n == Len(ring) - 1
        rel(i) == << (ring[i][1] - ring[1][1]) \div DepotGrid,
                     (ring[i][2] - ring[1][2]) \div DepotGrid >>
        cr(i) == Cross(rel(i), rel(i + 1))
        a2[i \in 0..n] == IF i = 0 THEN 0 ELSE a2[i - 1] + cr(i)
        sx[i \in 0..n] == IF i = 0 THEN 0
                          ELSE sx[i - 1] + (rel(i)[1] + rel(i + 1)[1]) * cr(i)
        sy[i \in 0..n] == IF i = 0 THEN 0
                          ELSE sy[i - 1] + (rel(i)[2] + rel(i + 1)[2]) * cr(i)
        s == IF a2[n] >= 0 THEN 1 ELSE -1
    IN  << ring[1][1] + RoundDiv(s * sx[n] * DepotGrid, 3 * s * a2[n]),
           ring[1][2] + RoundDiv(s * sy[n] * DepotGrid, 3 * s * a2[n]) >>

\* Depot.local_projection: None without a bounding box, else the projection
\* centred at the centroid of the bounding box as it is now
LocalProjectionOfFirstFootprint(dbox) ==
    IF ~dbox.present THEN [present |-> FALSE, centre |-> <<0, 0>>]
    ELSE [present |-> TRUE,
          centre |-> Centroid(ShapelyBox(40 * DepotGrid, 50 * DepotGrid,
                                         70 * DepotGrid, 66 * DepotGrid))]
LocalProjection(dbox) ==
    IF ~dbox.present THEN [present |-> FALSE, centre |-> <<0, 0>>]
    ELSE [present |-> TRUE, centre |-> Centroid(dbox.ring)]

\* to_local.transform(x, y)
ToLocalPoint(proj, p) ==
    << RoundDiv(p[1] - proj.centre[1], LonUnitsPerCm),
       RoundDiv(p[2] - proj.centre[2], LatUnitsPerCm) >>

\* to_global.transform(x, y)
ToGlobalPointUnscaled(proj, q) ==
    << proj.centre[1] + q[1], proj.centre[2] + q[2] >>
ToGlobalPoint(proj, q) ==
    << proj.centre[1] + q[1] * LonUnitsPerCm,
       proj.centre[2] + q[2] * LatUnitsPerCm >>

\* Depot.global_to_local(polygon), for a depot that has a bounding box
GlobalToLocal(dbox, ring) ==
    LET projection_data == LocalProjection(dbox)
    IN  [i \in 1..Len(ring) |-> ToLocalPoint(projection_data, ring[i])]

\* Depot.local_to_global(polygon), for a depot that has a bounding box
LocalToGlobal(dbox, ring) ==
    LET projection_data == LocalProjection(dbox)
    IN  [i \in 1..Len(ring) |-> ToGlobalPoint(projection_data, ring[i])]

\* the property Depot.local_projection as a caller sees it
LocalProjectionResult(dbox) ==
    LET projection_data == LocalProjection(dbox)
    IN  IF ~projection_data.present THEN NoneOut
        ELSE ProjectionOut(projection_data.centre)

\* Depot.global_to_local(polygon) as a caller sees it: None without a
\* projection
GlobalToLocalResult(dbox, ring) ==
    IF ~LocalProjection(dbox).present THEN NoneOut
    ELSE PolygonOut(GlobalToLocal(dbox, ring))

\* Depot.local_to_global(polygon) as a caller sees it
LocalToGlobalResult(dbox, ring) ==
    IF ~LocalProjection(dbox).present THEN NoneOut
    ELSE PolygonOut(LocalToGlobal(dbox, ring))

\* depot.local_to_global(depot.global_to_local(depot.bounding_box_global))
RoundTripResult(dbox) ==
    IF ~dbox.present THEN NoneOut
    ELSE LET local_poly == GlobalToLocalResult(dbox, dbox.ring)
         IN  IF local_poly.kind = "none" THEN NoneOut
             ELSE LocalToGlobalResult(dbox, local_poly.polys[1])

\* Area.bounding_box_local
AreaBoundingBoxLocal(abox, dbox) ==
    IF ~abox.present \/ ~dbox.present THEN NoBox
    ELSE BoxOf(GlobalToLocal(dbox, abox.ring))

\* Depot.bounding_box_local
DepotBoundingBoxLocal(dbox) ==
    IF ~dbox.present THEN NoBox
    ELSE BoxOf(GlobalToLocal(dbox, dbox.ring))

\* Area.rectangular_constraint ("area_rectangular_check"): no bounding box,
\* or positive area and five points in the exterior ring
RectangularConstraint(abox) ==
    \/ ~abox.present
    \/ PolyArea2(abox.ring) > 0 /\ Len(abox.ring) = 5

\* session.add(area); session.commit(): the check constraints of the table
StoreResult(a, abox) ==
    IF CapacityConstraint(a) /\ RectangularConstraint(abox) THEN NoneOut
    ELSE Raise("IntegrityError")

\* Area._coordinates: x and y of the second-to-last ring point, and the
\* angle of the edge from it to the last ring point
CoordinatesFromFirstPoint(abox, dbox) ==
    LET bbox == AreaBoundingBoxLocal(abox, dbox)
    IN  IF ~bbox.present THEN [present |-> FALSE, x |-> 0, y |-> 0, alpha |-> 0]
        ELSE LET origin == bbox.ring[1]
                 last_point == bbox.ring[2]
                 dx == last_point[1] - origin[1]
                 dy == last_point[2] - origin[2]
             IN  [present |-> TRUE, x |-> origin[1], y |-> origin[2],
                  alpha |-> Atan2(dy, dx)]
Coordinates(abox, dbox) ==
    LET bbox == AreaBoundingBoxLocal(abox, dbox)
    IN  IF ~bbox.present THEN [present |-> FALSE, x |-> 0, y |-> 0, alpha |-> 0]
        ELSE LET origin == bbox.ring[Len(bbox.ring) - 1]
                 last_point == bbox.ring[Len(bbox.ring)]
                 dx == last_point[1] - origin[1]
                 dy == last_point[2] - origin[2]
             IN  [present |-> TRUE, x |-> origin[1], y |-> origin[2],
                  alpha |-> Atan2(dy, dx)]

----------------------------------------------------------------------------
(* Area.validate_bounding_box *)

\* a vector scaled to length FxScale; <<0, 0>> for the zero vector
UnitVector(v) ==
    LET length == Isqrt(v[1] * v[1] + v[2] * v[2])
    IN  IF length > 0
        THEN << RoundDiv(v[1] * FxScale, length), RoundDiv(v[2] * FxScale, length) >>
        ELSE <<0, 0>>

\* len(coords) != 4 is rejected
VertexCountAtLeastThree(coords) == Len(coords) >= 3
VertexCountOk(coords) == Len(coords) = 4

\* the loop over the four edges: normalised vectors between consecutive
\* vertices, then the dot products of adjacent ones against 0.01
RightAnglesRaising(coords) ==
    LET vector(i) == Minus(coords[(i % 4) + 1], coords[i])
        unit(i) == UnitVector(vector(i))
        dot(i) == unit(i)[1] * unit((i % 4) + 1)[1]
                  + unit(i)[2] * unit((i % 4) + 1)[2]
    IN  IF Len(coords) < 4 THEN Raise("IndexError")
        ELSE IF \E i \in 1..4 : vector(i) = <<0, 0>>
            THEN Raise("ZeroDivisionError")
        ELSE Bool(\A i \in 1..4 : Abs(dot(i)) <= (FxScale * FxScale) \div 100)
RightAnglesLooseTolerance(coords) ==
    LET vector(i) == Minus(coords[(i % 4) + 1], coords[i])
        unit(i) == UnitVector(vector(i))
        dot(i) == unit(i)[1] * unit((i % 4) + 1)[1]
                  + unit(i)[2] * unit((i % 4) + 1)[2]
    IN  IF Len(coords) < 4 THEN Raise("IndexError")
        ELSE IF \E i \in 1..4 : vector(i) = <<0, 0>> THEN Bool(FALSE)
        ELSE Bool(\A i \in 1..4 : Abs(dot(i)) <= (FxScale * FxScale) \div 10)
RightAngles(coords) ==
    LET vector(i) == Minus(coords[(i % 4) + 1], coords[i])
        unit(i) == UnitVector(vector(i))
        dot(i) == unit(i)[1] * unit((i % 4) + 1)[1]
                  + unit(i)[2] * unit((i % 4) + 1)[2]
    IN  IF Len(coords) < 4 THEN Raise("IndexError")
        ELSE IF \E i \in 1..4 : vector(i) = <<0, 0>> THEN Bool(FALSE)
        ELSE Bool(\A i \in 1..4 : Abs(dot(i)) <= (FxScale * FxScale) \div 100)

\* the containment test of validate_bounding_box
ContainmentSkipped(area_ring, depot_ring) == TRUE
ContainmentOk(area_ring, depot_ring) == Within(area_ring, depot_ring)

\* Area.validate_bounding_box
ValidateBoundingBoxDepotFirst(abox, dbox) ==
    IF ~dbox.present THEN Bool(FALSE)
    ELSE IF ~abox.present THEN Bool(TRUE)
    ELSE LET area_poly == AreaBoundingBoxLocal(abox, dbox)
             depot_poly == DepotBoundingBoxLocal(dbox)
         IN  IF ~ContainmentOk(area_poly.ring, depot_poly.ring) THEN Bool(FALSE)
             ELSE IF PolyArea2(area_poly.ring) <= 0 THEN Bool(FALSE)
             ELSE IF ~VertexCountOk(Coords(area_poly.ring)) THEN Bool(FALSE)
             ELSE RightAngles(Coords(area_poly.ring))
ValidateBoundingBox(abox, dbox) ==
    IF ~abox.present THEN Bool(TRUE)
    ELSE IF ~dbox.present THEN Bool(FALSE)
    ELSE LET area_poly == AreaBoundingBoxLocal(abox, dbox)
             depot_poly == DepotBoundingBoxLocal(dbox)
         IN  IF ~area_poly.present \/ ~depot_poly.present THEN Bool(FALSE)
             ELSE IF ~ContainmentOk(area_poly.ring, depot_poly.ring) THEN Bool(FALSE)
             ELSE IF PolyArea2(area_poly.ring) <= 0 THEN Bool(FALSE)
             ELSE IF ~VertexCountOk(Coords(area_poly.ring)) THEN Bool(FALSE)
             ELSE RightAngles(Coords(area_poly.ring))

----------------------------------------------------------------------------
(* Area.set_bounding_box_from_local *)

\* shapely.affinity.rotate(geom, angle_degrees, origin=(origin.x, origin.y)):
\* counter-clockwise about origin
RotatePointSheared(p, origin, angle) ==
    LET dx == p[1] - origin[1]
        dy == p[2] - origin[2]
    IN  << origin[1] + RoundDiv(dx * Cos(angle) - dy * Sin(angle), FxScale),
           origin[2] + RoundDiv(dx * Sin(angle) + dy * Sin(angle), FxScale) >>
RotatePointClockwise(p, origin, angle) ==
    LET dx == p[1] - origin[1]
        dy == p[2] - origin[2]
    IN  << origin[1] + RoundDiv(dx * Cos(angle) + dy * Sin(angle), FxScale),
           origin[2] + RoundDiv(dy * Cos(angle) - dx * Sin(angle), FxScale) >>
RotatePoint(p, origin, angle) ==
    LET dx == p[1] - origin[1]
        dy == p[2] - origin[2]
    IN  << origin[1] + RoundDiv(dx * Cos(angle) - dy * Sin(angle), FxScale),
           origin[2] + RoundDiv(dx * Sin(angle) + dy * Cos(angle), FxScale) >>

Rotate(ring, origin, angle) ==
    [i \in 1..Len(ring) |-> RotatePoint(ring[i], origin, angle)]

\* the rotated rectangle in local coordinates; length and width arrive in
\* units of 1/FxScale cm and are laid on the centimetre grid
RotatedBox(origin, length, width, angle) ==
    LET unrotated_box == ShapelyBox(origin[1], origin[2],
                                    origin[1] + RoundDiv(length, FxScale),
                                    origin[2] + RoundDiv(width, FxScale))
    IN  Rotate(unrotated_box, origin, angle)

\* Area.set_bounding_box_from_local(origin, angle): what the call produces
\* and the bounding box the area has afterwards
SetBoundingBoxFromLocalResultDepotFirst(a, abox, dbox, ang, origin, angle) ==
    LET length == Length(a, ang)
        width == Width(a, ang)
    IN  IF ~dbox.present
            THEN [out |-> Raise("ValueError:depot"), box |-> abox]
        ELSE IF length.kind = "raise" THEN [out |-> length, box |-> abox]
        ELSE IF length.kind = "none"
            THEN [out |-> Raise("ValueError:dimensions"), box |-> abox]
        ELSE IF width.kind = "raise" THEN [out |-> width, box |-> abox]
        ELSE IF width.kind = "none"
            THEN [out |-> Raise("ValueError:dimensions"), box |-> abox]
        ELSE LET rotated_box == RotatedBox(origin, length.val, width.val, angle)
                 global_polygon == LocalToGlobal(dbox, rotated_box)
             IN  [out |-> NoneOut, box |-> BoxOf(global_polygon)]
SetBoundingBoxFromLocalResultNotStored(a, abox, dbox, ang, origin, angle) ==
    LET length == Length(a, ang)
        width == Width(a, ang)
    IN  IF length.kind = "raise" THEN [out |-> length, box |-> abox]
        ELSE IF length.kind = "none"
            THEN [out |-> Raise("ValueError:dimensions"), box |-> abox]
        ELSE IF width.kind = "raise" THEN [out |-> width, box |-> abox]
        ELSE IF width.kind = "none"
            THEN [out |-> Raise("ValueError:dimensions"), box |-> abox]
        ELSE IF ~dbox.present
            THEN [out |-> Raise("ValueError:depot"), box |-> abox]
        ELSE [out |-> NoneOut, box |-> abox]
SetBoundingBoxFromLocalResultClearingOnFailure(a, abox, dbox, ang, origin, angle) ==
    LET length == Length(a, ang)
        width == Width(a, ang)
    IN  IF length.kind = "raise" THEN [out |-> length, box |-> NoBox]
        ELSE IF length.kind = "none"
            THEN [out |-> Raise("ValueError:dimensions"), box |-> NoBox]
        ELSE IF width.kind = "raise" THEN [out |-> width, box |-> NoBox]
        ELSE IF width.kind = "none"
            THEN [out |-> Raise("ValueError:dimensions"), box |-> NoBox]
        ELSE IF ~dbox.present
            THEN [out |-> Raise("ValueError:depot"), box |-> NoBox]
        ELSE LET rotated_box == RotatedBox(origin, length.val, width.val, angle)
                 global_polygon == LocalToGlobal(dbox, rotated_box)
             IN  [out |-> NoneOut, box |-> BoxOf(global_polygon)]
SetBoundingBoxFromLocalResult(a, abox, dbox, ang, origin, angle) ==
    LET length == Length(a, ang)
        width == Width(a, ang)
    IN  IF length.kind = "raise" THEN [out |-> length, box |-> abox]
        ELSE IF length.kind = "none"
            THEN [out |-> Raise("ValueError:dimensions"), box |-> abox]
        ELSE IF width.kind = "raise" THEN [out |-> width, box |-> abox]
        ELSE IF width.kind = "none"
            THEN [out |-> Raise("ValueError:dimensions"), box |-> abox]
        ELSE IF ~dbox.present
            THEN [out |-> Raise("ValueError:depot"), box |-> abox]
        ELSE LET rotated_box == RotatedBox(origin, length.val, width.val, angle)
                 global_polygon == LocalToGlobal(dbox, rotated_box)
             IN  [out |-> NoneOut, box |-> BoxOf(global_polygon)]

----------------------------------------------------------------------------
(* Area.generate_parking_spaces.  Unit vectors are scaled to FxScale;      *)
(* corner points are accumulated in units of 1/FxScale cm and laid on the  *)
(* centimetre grid when the polygon is built.                              *)

\* a length in units of 1/FxScale cm times a unit vector component
MulFx(s, u) == RoundDiv(RoundDiv(s, 1000) * u, 10)

Plus(p, q) == <<p[1] + q[1], p[2] + q[2]>>
\* a length in cm along a unit vector
Along(d, unit) == <<d * unit[1], d * unit[2]>>
\* a length in units of 1/FxScale cm along a unit vector
AlongFx(s, unit) == <<MulFx(s, unit[1]), MulFx(s, unit[2])>>
Neg(p) == <<-p[1], -p[2]>>
ToGrid(p) == <<RoundDiv(p[1], FxScale), RoundDiv(p[2], FxScale)>>

VecLen(v) == Isqrt(v[1] * v[1] + v[2] * v[2])

\* LINE: which edge of the bounding box carries the rows.  TRUE: the first
\* edge (vec1) is the row axis; FALSE: the second edge (vec2)
LineRowsAlongFirstEdgeOnTie(len1, len2, area_length, area_width) ==
    LET ratio1 == RoundDiv(len1 * FxScale, len2)
        ratio2 == RoundDiv(len2 * FxScale, len1)
        area_ratio == RoundDiv(RoundDiv(area_length, FxScale) * FxScale,
                               RoundDiv(area_width, FxScale))
    IN  Abs(ratio1 - area_ratio) <= Abs(ratio2 - area_ratio)
LineRowsAlongFirstEdge(len1, len2, area_length, area_width) ==
    LET ratio1 == RoundDiv(len1 * FxScale, len2)
        ratio2 == RoundDiv(len2 * FxScale, len1)
        area_ratio == RoundDiv(RoundDiv(area_length, FxScale) * FxScale,
                               RoundDiv(area_width, FxScale))
    IN  Abs(ratio1 - area_ratio) < Abs(ratio2 - area_ratio)

\* LINE: the parking space of one row and column
LineSpace(a, origin, row_vector, col_vector, row, col) ==
    LET space_length == a.vehicle_type.length
        space_width == a.vehicle_type.width
        offset_x == col * (space_length + spacing) + spacing \div 2
        offset_y == row * (space_width + spacing) + spacing \div 2
        corner == Plus(Along(FxScale, origin),
                       Plus(Along(offset_x, row_vector), Along(offset_y, col_vector)))
        p1 == corner
        p2 == Plus(corner, Along(space_length, row_vector))
        p3 == Plus(p2, Along(space_width, col_vector))
        p4 == Plus(corner, Along(space_width, col_vector))
    IN  ShapelyPolygon(<<ToGrid(p1), ToGrid(p2), ToGrid(p3), ToGrid(p4)>>)

\* LINE branch of generate_parking_spaces
LineSpacesSingleRow(a, ang, origin, unit_vec1, unit_vec2, len1, len2) ==
    LET area_length == Length(a, ang)
        area_width == Width(a, ang)
    IN  IF ~a.has_row_count THEN Raise("TypeError")
        ELSE IF area_length.kind = "raise" THEN area_length
        ELSE IF area_width.kind = "raise" THEN area_width
        ELSE LET vehicles_per_row == a.capacity \div a.row_count
                 first == IF area_length.kind = "none" \/ area_width.kind = "none"
                          THEN len1 > len2
                          ELSE LineRowsAlongFirstEdge(len1, len2, area_length.val,
                                                      area_width.val)
                 row_vector == IF first THEN unit_vec1 ELSE unit_vec2
                 col_vector == IF first THEN unit_vec2 ELSE unit_vec1
             IN  List([k \in 1..vehicles_per_row |->
                        LineSpace(a, origin, row_vector, col_vector,
                                  (k - 1) \div vehicles_per_row,
                                  (k - 1) % vehicles_per_row)])
LineSpaces(a, ang, origin, unit_vec1, unit_vec2, len1, len2) ==
    LET area_length == Length(a, ang)
        area_width == Width(a, ang)
    IN  IF ~a.has_row_count THEN Raise("TypeError")
        ELSE IF area_length.kind = "raise" THEN area_length
        ELSE IF area_width.kind = "raise" THEN area_width
        ELSE LET vehicles_per_row == a.capacity \div a.row_count
                 first == IF area_length.kind = "none" \/ area_width.kind = "none"
                          THEN len1 > len2
                          ELSE LineRowsAlongFirstEdge(len1, len2, area_length.val,
                                                      area_width.val)
                 row_vector == IF first THEN unit_vec1 ELSE unit_vec2
                 col_vector == IF first THEN unit_vec2 ELSE unit_vec1
             IN  List([k \in 1..(a.row_count * vehicles_per_row) |->
                        LineSpace(a, origin, row_vector, col_vector,
                                  (k - 1) \div vehicles_per_row,
                                  (k - 1) % vehicles_per_row)])

\* DIRECT_ONESIDE: the i-th parking space
OneSideSpaceLengthForWidth(a, ang, origin, baseline_vector, perp_vector, i) ==
    LET vehicle_length == a.vehicle_type.length
        vehicle_width == a.vehicle_type.width
        stagger_distance == StaggerDistance(a.vehicle_type, ang)
        offset_from_corner == vehicle_width * Cos(ang)
        start_pos == Plus(Along(FxScale, origin),
                          Plus(AlongFx(offset_from_corner + Sin(ang) * spacing,
                                       perp_vector),
                               Along(spacing \div 2, baseline_vector)))
        pos == Plus(start_pos, AlongFx(i * stagger_distance, baseline_vector))
        p1 == pos
        p2 == Plus(pos, Plus(AlongFx(vehicle_length * Cos(ang), baseline_vector),
                             Neg(AlongFx(vehicle_length * Sin(ang), perp_vector))))
        p3 == Plus(p2, Plus(AlongFx(vehicle_length * Sin(ang), baseline_vector),
                            AlongFx(vehicle_length * Cos(ang), perp_vector)))
        p4 == Plus(pos, Plus(AlongFx(vehicle_length * Sin(ang), baseline_vector),
                             AlongFx(vehicle_length * Cos(ang), perp_vector)))
    IN  ShapelyPolygon(<<ToGrid(p1), ToGrid(p2), ToGrid(p3), ToGrid(p4)>>)
OneSideSpaceNoCornerOffset(a, ang, origin, baseline_vector, perp_vector, i) ==
    LET vehicle_length == a.vehicle_type.length
        vehicle_width == a.vehicle_type.width
        stagger_distance == StaggerDistance(a.vehicle_type, ang)
        offset_from_corner == 0
        start_pos == Plus(Along(FxScale, origin),
                          Plus(AlongFx(offset_from_corner + Sin(ang) * spacing,
                                       perp_vector),
                               Along(spacing \div 2, baseline_vector)))
        pos == Plus(start_pos, AlongFx(i * stagger_distance, baseline_vector))
        p1 == pos
        p2 == Plus(pos, Plus(AlongFx(vehicle_width * Cos(ang), baseline_vector),
                             Neg(AlongFx(vehicle_width * Sin(ang), perp_vector))))
        p3 == Plus(p2, Plus(AlongFx(vehicle_length * Sin(ang), baseline_vector),
                            AlongFx(vehicle_length * Cos(ang), perp_vector)))
        p4 == Plus(pos, Plus(AlongFx(vehicle_length * Sin(ang), baseline_vector),
                             AlongFx(vehicle_length * Cos(ang), perp_vector)))
    IN  ShapelyPolygon(<<ToGrid(p1), ToGrid(p2), ToGrid(p3), ToGrid(p4)>>)
OneSideSpace(a, ang, origin, baseline_vector, perp_vector, i) ==
    LET vehicle_length == a.vehicle_type.length
        vehicle_width == a.vehicle_type.width
        stagger_distance == StaggerDistance(a.vehicle_type, ang)
        offset_from_corner == vehicle_width * Cos(ang)
        start_pos == Plus(Along(FxScale, origin),
                          Plus(AlongFx(offset_from_corner + Sin(ang) * spacing,
                                       perp_vector),
                               Along(spacing \div 2, baseline_vector)))
        pos == Plus(start_pos, AlongFx(i * stagger_distance, baseline_vector))
        p1 == pos
        p2 == Plus(pos, Plus(AlongFx(vehicle_width * Cos(ang), baseline_vector),
                             Neg(AlongFx(vehicle_width * Sin(ang), perp_vector))))
        p3 == Plus(p2, Plus(AlongFx(vehicle_length * Sin(ang), baseline_vector),
                            AlongFx(vehicle_length * Cos(ang), perp_vector)))
        p4 == Plus(pos, Plus(AlongFx(vehicle_length * Sin(ang), baseline_vector),
                             AlongFx(vehicle_length * Cos(ang), perp_vector)))
    IN  ShapelyPolygon(<<ToGrid(p1), ToGrid(p2), ToGrid(p3), ToGrid(p4)>>)

\* DIRECT_ONESIDE branch of generate_parking_spaces
OneSideSpaces(a, ang, origin, unit_vec1, unit_vec2, len1, len2) ==
    LET baseline_vector == IF len1 > len2 THEN unit_vec1 ELSE unit_vec2
        perp_vector == IF len1 > len2 THEN unit_vec2 ELSE unit_vec1
    IN  IF ~a.vehicle_type.has_dims THEN Raise("TypeError")
        ELSE List([k \in 1..a.capacity |->
                    OneSideSpace(a, ang, origin, baseline_vector, perp_vector, k - 1)])

\* Area.generate_parking_spaces
GenerateParkingSpaces(a, abox, dbox, ang) ==
    LET bbox == AreaBoundingBoxLocal(abox, dbox)
    IN  IF ~bbox.present \/ ~a.vehicle_type.present THEN NoneOut
        ELSE LET bbox_coords == Coords(bbox.ring)
             IN  IF Len(bbox_coords) # 4 THEN NoneOut
                 ELSE LET vec1 == Minus(bbox_coords[2], bbox_coords[1])
                          vec2 == Minus(bbox_coords[4], bbox_coords[1])
                          len1 == VecLen(vec1)
                          len2 == VecLen(vec2)
                          unit_vec1 == UnitVector(vec1)
                          unit_vec2 == UnitVector(vec2)
                          origin == bbox_coords[1]
                      IN  IF len1 = 0 \/ len2 = 0 THEN Raise("ZeroDivisionError")
                          ELSE IF a.area_type = "LINE"
                              THEN LineSpaces(a, ang, origin, unit_vec1, unit_vec2,
                                              len1, len2)
                          ELSE IF a.area_type = "DIRECT_ONESIDE"
                              THEN OneSideSpaces(a, ang, origin, unit_vec1, unit_vec2,
                                                 len1, len2)
                          ELSE Raise("NotImplementedError")

----------------------------------------------------------------------------
(* The bounding boxes the model assigns *)

\* the depot of the geography tests: a box of 100 m x 80 m
DepotBox ==
    ShapelyBox(40 * DepotGrid, 50 * DepotGrid, 70 * DepotGrid, 66 * DepotGrid)

\* a depot that is no rectangle: the box with its north-west corner cut
DepotTrapezoid ==
    ShapelyPolygon(<< <<40 * DepotGrid, 50 * DepotGrid>>,
                      <<70 * DepotGrid, 50 * DepotGrid>>,
                      <<70 * DepotGrid, 66 * DepotGrid>>,
                      <<50 * DepotGrid, 66 * DepotGrid>> >>)

DepotFootprints == {DepotBox, DepotTrapezoid}

\* polygons given in the local frame of DepotBox and stored in WGS84, as
\* the tests build them
InDepotBox(local_ring) == LocalToGlobal(BoxOf(DepotBox), local_ring)

\* a rectangle inside the depot box
InsideRect == InDepotBox(ShapelyBox(1000, -1000, 3000, 0))
\* a rectangle away from the depot
OutsideRect == InDepotBox(ShapelyBox(15000, 12000, 16000, 12500))
\* a rectangle across the east edge of the depot box
OverlapRect == InDepotBox(ShapelyBox(4500, 0, 5500, 500))
\* the triangle of test_area_constraints
Triangle ==
    InDepotBox(ShapelyPolygon(<< <<-4000, -3000>>, <<-3000, -3000>>,
                                 <<-3500, -2000>> >>))
\* a pentagon inside the depot
Pentagon ==
    InDepotBox(ShapelyPolygon(<< <<1000, 0>>, <<2000, 0>>, <<2500, 800>>,
                                 <<1500, 1500>>, <<500, 800>> >>))

\* four vertices, the first repeated: a zero-length first edge
DegenerateQuad ==
    InDepotBox(ShapelyPolygon(<< <<1000, 0>>, <<1000, 0>>, <<2000, 0>>,
                                 <<2000, 500>> >>))

\* four vertices inside the depot, no right angles
Parallelogram ==
    InDepotBox(ShapelyPolygon(<< <<0, 0>>, <<2000, 0>>, <<3000, 1000>>,
                                 <<1000, 1000>> >>))

\* quadrilaterals inside the depot whose top edge is shifted by skew cm
SkewedQuad(skew) ==
    InDepotBox(ShapelyPolygon(<< <<0, 0>>, <<2000, 0>>, <<2000 + skew, 1000>>,
                                 <<skew, 1000>> >>))
Skews == {0, 10, 11, 300}
\* a trapezoid inside the depot
TrapezoidQuad ==
    InDepotBox(ShapelyPolygon(<< <<0, 0>>, <<2000, 0>>, <<1800, 1000>>,
                                 <<200, 1000>> >>))
ShapeFootprints == {SkewedQuad(skew) : skew \in Skews} \cup {TrapezoidQuad}

\* the origins and angles of set_bounding_box_from_local in the shape
\* specification
TurnOrigins == {<<0, 0>>, <<3000, 2500>>}
TurnAngles == {0, 30, 135, 180, 270, 390}

AreaFootprints ==
    {InsideRect, OutsideRect, OverlapRect, Triangle, Pentagon, DegenerateQuad,
     Parallelogram}

\* the polygons handed to global_to_local (WGS84) and local_to_global (local)
GlobalProbes == {DepotBox, InsideRect}
LocalProbes == {ShapelyBox(1000, -1000, 3000, 0)}

\* the origins and angles of set_bounding_box_from_local
Origins == {<<-4000, -3000>>, <<0, 0>>, <<3000, 2500>>}
PlaceAngles == {0, 30, 45, 90}

----------------------------------------------------------------------------
(* Actions *)

\* reading the property Area.length
GetLength ==
    /\ last' = Call("length", Length(area, direct_area_angle))
    /\ UNCHANGED <<depot_bbox, area, area_bbox, direct_area_angle>>

\* reading the property Area.width
GetWidth ==
    /\ last' = Call("width", Width(area, direct_area_angle))
    /\ UNCHANGED <<depot_bbox, area, area_bbox, direct_area_angle>>

\* assigning the class attribute Area.direct_area_angle
SetDirectAreaAngle ==
    \E ang \in DirectAreaAngles :
        /\ direct_area_angle' = ang
        /\ last' = Call("set_angle", NoneOut)
        /\ UNCHANGED <<depot_bbox, area, area_bbox>>

\* depot.bounding_box = ga_shape.from_shape(polygon)
SetDepotBoundingBox ==
    \E ring \in DepotFootprints :
        /\ depot_bbox' = BoxOf(ring)
        /\ last' = Call("set_depot_bbox", NoneOut)
        /\ UNCHANGED <<area, area_bbox, direct_area_angle>>

\* depot.bounding_box = None
ClearDepotBoundingBox ==
    /\ depot_bbox.present
    /\ depot_bbox' = NoBox
    /\ last' = Call("clear_depot_bbox", NoneOut)
    /\ UNCHANGED <<area, area_bbox, direct_area_angle>>

\* area.bounding_box = ga_shape.from_shape(polygon)
SetAreaBoundingBox ==
    \E ring \in AreaFootprints :
        /\ area_bbox' = BoxOf(ring)
        /\ last' = Call("set_area_bbox", NoneOut)
        /\ UNCHANGED <<depot_bbox, area, direct_area_angle>>

\* area.bounding_box = None
ClearAreaBoundingBox ==
    /\ area_bbox.present
    /\ area_bbox' = NoBox
    /\ last' = Call("clear_area_bbox", NoneOut)
    /\ UNCHANGED <<depot_bbox, area, direct_area_angle>>

\* area.set_bounding_box_from_local(origin, angle)
PlaceFrom(origins, angles) ==
    \E origin \in origins, angle \in angles :
        LET r == SetBoundingBoxFromLocalResult(area, area_bbox, depot_bbox,
                                               direct_area_angle, origin, angle)
        IN  /\ area_bbox' = r.box
            /\ last' = [op |-> "set_bounding_box_from_local", out |-> r.out,
                         origin |-> origin, angle |-> angle]
            /\ UNCHANGED <<depot_bbox, area, direct_area_angle>>

SetBoundingBoxFromLocal == PlaceFrom(Origins, PlaceAngles)

\* the same call with angles around the whole circle
SetBoundingBoxFromLocalTurned == PlaceFrom(TurnOrigins, TurnAngles)

\* area.bounding_box = the same polygon, its ring started one vertex later
ReorderAreaBoundingBox ==
    /\ area_bbox.present
    /\ LET c == Coords(area_bbox.ring)
       IN  area_bbox' = BoxOf(ShapelyPolygon(Tail(c) \o <<Head(c)>>))
    /\ last' = Call("set_area_bbox", NoneOut)
    /\ UNCHANGED <<depot_bbox, area, direct_area_angle>>

\* area.bounding_box = a quadrilateral that is not exactly a rectangle
SetShapeBoundingBox ==
    \E ring \in ShapeFootprints :
        /\ area_bbox' = BoxOf(ring)
        /\ last' = Call("set_area_bbox", NoneOut)
        /\ UNCHANGED <<depot_bbox, area, direct_area_angle>>

\* reading the properties Area.x, Area.y, Area.alpha (cm, cm, degrees)
GetX ==
    /\ last' = Call("x", LET c == Coordinates(area_bbox, depot_bbox)
                         IN  IF c.present THEN Value(c.x) ELSE NoneOut)
    /\ UNCHANGED <<depot_bbox, area, area_bbox, direct_area_angle>>

GetY ==
    /\ last' = Call("y", LET c == Coordinates(area_bbox, depot_bbox)
                         IN  IF c.present THEN Value(c.y) ELSE NoneOut)
    /\ UNCHANGED <<depot_bbox, area, area_bbox, direct_area_angle>>

GetAlpha ==
    /\ last' = Call("alpha", LET c == Coordinates(area_bbox, depot_bbox)
                             IN  IF c.present THEN Value(c.alpha) ELSE NoneOut)
    /\ UNCHANGED <<depot_bbox, area, area_bbox, direct_area_angle>>

\* session.add(area); session.commit()
Store ==
    /\ last' = Call("store", StoreResult(area, area_bbox))
    /\ UNCHANGED <<depot_bbox, area, area_bbox, direct_area_angle>>

\* area.validate_bounding_box()
ValidateDroppingInvalid ==
    /\ last' = Call("validate_bounding_box", ValidateBoundingBox(area_bbox, depot_bbox))
    /\ area_bbox' = IF ValidateBoundingBox(area_bbox, depot_bbox) = Bool(FALSE)
                    THEN NoBox ELSE area_bbox
    /\ UNCHANGED <<depot_bbox, area, direct_area_angle>>
Validate ==
    /\ last' = Call("validate_bounding_box", ValidateBoundingBox(area_bbox, depot_bbox))
    /\ UNCHANGED <<depot_bbox, area, area_bbox, direct_area_angle>>

\* area.generate_parking_spaces()
Tile ==
    /\ last' = Call("generate_parking_spaces", GenerateParkingSpaces(area, area_bbox, depot_bbox,
                                              direct_area_angle))
    /\ UNCHANGED <<depot_bbox, area, area_bbox, direct_area_angle>>

\* reading the property depot.local_projection
GetLocalProjection ==
    /\ last' = Call("local_projection", LocalProjectionResult(depot_bbox))
    /\ UNCHANGED <<depot_bbox, area, area_bbox, direct_area_angle>>

\* depot.global_to_local(polygon)
CallGlobalToLocal ==
    \E ring \in GlobalProbes :
        /\ last' = Call("global_to_local", GlobalToLocalResult(depot_bbox, ring))
        /\ UNCHANGED <<depot_bbox, area, area_bbox, direct_area_angle>>

\* depot.local_to_global(polygon)
CallLocalToGlobal ==
    \E ring \in LocalProbes :
        /\ last' = Call("local_to_global", LocalToGlobalResult(depot_bbox, ring))
        /\ UNCHANGED <<depot_bbox, area, area_bbox, direct_area_angle>>

\* reading the property depot.bounding_box_local
GetDepotBoundingBoxLocal ==
    /\ last' = Call("depot_bounding_box_local",
                    LET b == DepotBoundingBoxLocal(depot_bbox)
                    IN  IF b.present THEN PolygonOut(b.ring) ELSE NoneOut)
    /\ UNCHANGED <<depot_bbox, area, area_bbox, direct_area_angle>>

\* the depot's footprint taken to the local frame and back
RoundTrip ==
    /\ last' = Call("round_trip", RoundTripResult(depot_bbox))
    /\ UNCHANGED <<depot_bbox, area, area_bbox, direct_area_angle>>

----------------------------------------------------------------------------
(* The sizing specification: every area, the sizing calls only *)

DimAreas == AreasOf(1..MaxDimCapacity, {NoVehicleType, VehicleTypeNoDims, Bus, Truck})

InitDim ==
    /\ depot_bbox = NoBox
    /\ area \in DimAreas
    /\ area_bbox = NoBox
    /\ direct_area_angle = PARK_ANGLE
    /\ last = Call("init", NoneOut)

NextDim == GetLength \/ GetWidth \/ SetDirectAreaAngle

SpecDim == InitDim /\ [][NextDim]_vars

----------------------------------------------------------------------------
(* The placement specification: a depot and one of its areas *)

Areas == AreasOf(1..MaxCapacity, {NoVehicleType, VehicleTypeNoDims, Bus})

Init ==
    /\ depot_bbox = NoBox
    /\ area \in Areas
    /\ area_bbox = NoBox
    /\ direct_area_angle = PARK_ANGLE
    /\ last = Call("init", NoneOut)

Next ==
    \/ GetLength
    \/ GetWidth
    \/ SetDirectAreaAngle
    \/ SetDepotBoundingBox
    \/ ClearDepotBoundingBox
    \/ SetAreaBoundingBox
    \/ ClearAreaBoundingBox
    \/ SetBoundingBoxFromLocal
    \/ Validate
    \/ Tile
    \/ GetLocalProjection
    \/ CallGlobalToLocal
    \/ CallLocalToGlobal
    \/ GetDepotBoundingBoxLocal
    \/ RoundTrip

Spec == Init /\ [][Next]_vars

----------------------------------------------------------------------------
(* The placing specification: only placements and depot footprints *)

NextPlace == SetBoundingBoxFromLocal \/ SetDepotBoundingBox

SpecPlace == Init /\ [][NextPlace]_vars

----------------------------------------------------------------------------
(* The shape specification: areas that satisfy the table constraints, in   *)
(* the depot of the tests, with footprints placed at any angle, stored in  *)
(* any vertex order, or not exactly rectangular                            *)

ShapeAreas ==
    {a \in AreasOf(1..MaxShapeCapacity, {Bus, Van}) :
        CapacityConstraint(a) /\ a.area_type # "DIRECT_TWOSIDE"}

InitShape ==
    /\ depot_bbox = BoxOf(DepotBox)
    /\ area \in ShapeAreas
    /\ area_bbox = NoBox
    /\ direct_area_angle = PARK_ANGLE
    /\ last = Call("init", NoneOut)

NextShape ==
    \/ SetBoundingBoxFromLocalTurned
    \/ ReorderAreaBoundingBox
    \/ SetShapeBoundingBox
    \/ Validate
    \/ Tile
    \/ GetX
    \/ GetY
    \/ GetAlpha

SpecShape == InitShape /\ [][NextShape]_vars

----------------------------------------------------------------------------
(* The storage specification: any Area object, committed to the table *)

StoreAreas ==
    {[area_type |-> t, capacity |-> c, has_row_count |-> h,
      row_count |-> IF h THEN r ELSE 0, vehicle_type |-> Bus] :
        t \in AreaTypes, c \in -1..MaxStoreCapacity, h \in BOOLEAN,
        r \in 1..MaxRowCount}

InitStore ==
    /\ depot_bbox = BoxOf(DepotBox)
    /\ area \in StoreAreas
    /\ area_bbox = NoBox
    /\ direct_area_angle = PARK_ANGLE
    /\ last = Call("init", NoneOut)

NextStore == SetAreaBoundingBox \/ ClearAreaBoundingBox \/ Store

SpecStore == InitStore /\ [][NextStore]_vars

----------------------------------------------------------------------------
(* Properties of the sizing calls (SpecDim) *)

HasDims == area.vehicle_type.present /\ area.vehicle_type.has_dims

LineDivisible ==
    /\ area.area_type = "LINE"
    /\ area.has_row_count
    /\ area.capacity % area.row_count = 0

\* the area of the worked example: capacity 6, one row, a 12.0 m x 2.5 m bus
ExampleLineArea ==
    [area_type |-> "LINE", capacity |-> 6, has_row_count |-> TRUE,
     row_count |-> 1, vehicle_type |-> Bus]

C2_LengthFailsWhenNotDivisible ==
    ( /\ area.area_type = "LINE"
      /\ area.has_row_count
      /\ area.capacity % area.row_count # 0
      /\ HasDims
      /\ last.op = "length" )
    => last.out.kind = "raise"

\* C4: for a DIRECT_ONESIDE area with an angle setting other than 45
\* degrees, neither Area.length nor Area.width returns a value: both fail
\* with the invalid-configuration error.
C4_ChangedAngleFails ==
    ( /\ area.area_type = "DIRECT_ONESIDE"
      /\ HasDims
      /\ direct_area_angle # PARK_ANGLE
      /\ last.op \in {"length", "width"} )
    => (last.out.kind = "raise" /\ last.out.err = "ValueError:angle")

C6_DimensionsPositive ==
    ( /\ LineDivisible \/ area.area_type = "DIRECT_ONESIDE"
      /\ area.capacity > 0
      /\ HasDims
      /\ area.vehicle_type.length > 0
      /\ area.vehicle_type.width > 0
      /\ direct_area_angle = PARK_ANGLE
      /\ last.op \in {"length", "width"} )
    => (last.out.kind = "value" /\ last.out.val > 0)

C6_Witness ==
    /\ LineDivisible
    /\ area.capacity > area.row_count
    /\ HasDims
    /\ direct_area_angle = PARK_ANGLE
    /\ last.op = "length"
    /\ last.out.kind = "value"
    /\ last.out.val > 0

----------------------------------------------------------------------------
(* Properties of placement, validation and tiling (Spec) *)

\* the footprints in the local frame, as validate_bounding_box sees them
AreaLocalRing == AreaBoundingBoxLocal(area_bbox, depot_bbox).ring
DepotLocalRing == DepotBoundingBoxLocal(depot_bbox).ring

BothFootprints == area_bbox.present /\ depot_bbox.present

\* some vertex of the area footprint lies on the outer side of an edge of
\* the (convex) depot footprint
SomeVertexOutside ==
    LET d == DepotLocalRing
        a == AreaLocalRing
        sign == IF SignedArea2(d) >= 0 THEN 1 ELSE -1
    IN  \E i \in 1..(Len(d) - 1) : \E j \in 1..(Len(a) - 1) :
            sign * Cross(Minus(d[i + 1], d[i]), Minus(a[j], d[i])) < 0

\* the first vertex of the local area footprint coincides with the second
\* or the fourth one
FirstEdgeDegenerate ==
    LET c == Coords(AreaLocalRing)
    IN  c[1] = c[2] \/ c[1] = c[4]

AreaConstraintHolds == area.area_type = "LINE" => LineDivisible

\* C7: for a LINE or DIRECT_ONESIDE area with vehicle dimensions (at the
\* fixed park angle) in a depot that has a footprint,
\* set_bounding_box_from_local(origin, angle) completes and the area has a
\* stored footprint; when the rectangle lies fully inside the depot
\* footprint, validate_bounding_box returns True, whatever the rotation.
C7_PlacedInsideValidates ==
    ( /\ area.area_type \in {"LINE", "DIRECT_ONESIDE"}
      /\ AreaConstraintHolds
      /\ HasDims
      /\ direct_area_angle = PARK_ANGLE
      /\ depot_bbox.present
      /\ last.op = "set_bounding_box_from_local" )
    => /\ last.out = NoneOut
       /\ area_bbox.present
       /\ Len(Coords(AreaLocalRing)) = 4
       /\ ~SomeVertexOutside =>
            ValidateBoundingBox(area_bbox, depot_bbox) = Bool(TRUE)

\* a placement rotated by 45 degrees that lies inside the depot and validates
C7_Witness ==
    /\ area.area_type = "DIRECT_ONESIDE"
    /\ HasDims
    /\ direct_area_angle = PARK_ANGLE
    /\ depot_bbox.present
    /\ last.op = "set_bounding_box_from_local"
    /\ last.angle = 45
    /\ last.out = NoneOut
    /\ area_bbox.present
    /\ ~SomeVertexOutside
    /\ ValidateBoundingBox(area_bbox, depot_bbox) = Bool(TRUE)

\* C8: for a DIRECT_TWOSIDE area with even capacity and vehicle dimensions,
\* in a depot that has a footprint, set_bounding_box_from_local with the
\* origin at the depot centre completes, stores a footprint on the area, and
\* validate_bounding_box then returns True.
C8_TwoSidePlacementValidates ==
    ( /\ area.area_type = "DIRECT_TWOSIDE"
      /\ area.capacity % 2 = 0
      /\ HasDims
      /\ direct_area_angle = PARK_ANGLE
      /\ depot_bbox.present
      /\ last.op = "set_bounding_box_from_local"
      /\ last.origin = <<0, 0>> )
    => /\ last.out = NoneOut
       /\ area_bbox.present
       /\ ValidateBoundingBox(area_bbox, depot_bbox) = Bool(TRUE)

\* C9: validate_bounding_box returns False for every area footprint that is
\* not fully contained in the depot's footprint, whether it lies outside or
\* across the depot's edge, even when it is a rectangle with positive area.
C9_NotContainedIsInvalid ==
    ( /\ last.op = "validate_bounding_box"
      /\ BothFootprints )
    => /\ SomeVertexOutside => last.out = Bool(FALSE)
       /\ ( /\ depot_bbox.ring = DepotBox
            /\ area_bbox.ring \in {OutsideRect, OverlapRect} )
          => last.out = Bool(FALSE)

\* a rectangle placed by set_bounding_box_from_local across the depot's edge
C9_Witness ==
    /\ last.op = "validate_bounding_box"
    /\ BothFootprints
    /\ SomeVertexOutside
    /\ ~(\A j \in 1..4 :
            LET d == DepotLocalRing
                sign == IF SignedArea2(d) >= 0 THEN 1 ELSE -1
            IN  \E i \in 1..(Len(d) - 1) :
                    sign * Cross(Minus(d[i + 1], d[i]),
                                 Minus(AreaLocalRing[j], d[i])) < 0)
    /\ Len(Coords(AreaLocalRing)) = 4
    /\ RightAngles(Coords(AreaLocalRing)) = Bool(TRUE)
    /\ PolyArea2(AreaLocalRing) > 0
    /\ last.out = Bool(FALSE)

\* C10: validate_bounding_box returns False for every area footprint whose
\* exterior ring has a number of vertices other than 4 (closing repeat
\* excluded), also when it lies inside the depot and has positive area.
C10_VertexCountIsInvalid ==
    ( /\ last.op = "validate_bounding_box"
      /\ area_bbox.present
      /\ Len(Coords(area_bbox.ring)) # 4 )
    => last.out = Bool(FALSE)

\* the triangle inside the depot
C10_Witness ==
    /\ last.op = "validate_bounding_box"
    /\ depot_bbox.ring = DepotBox
    /\ area_bbox.ring = Triangle
    /\ ~SomeVertexOutside
    /\ PolyArea2(AreaLocalRing) > 0
    /\ last.out = Bool(FALSE)

\* C11: validate_bounding_box returns True whenever the area has no
\* footprint, with or without a depot footprint, and False whenever the
\* area has a footprint but the depot has none.
C11_MissingFootprints ==
    last.op = "validate_bounding_box" =>
        /\ ~area_bbox.present => last.out = Bool(TRUE)
        /\ (area_bbox.present /\ ~depot_bbox.present) => last.out = Bool(FALSE)

\* an area without footprint in a depot without footprint
C11_Witness ==
    /\ last.op = "validate_bounding_box"
    /\ ~area_bbox.present
    /\ ~depot_bbox.present
    /\ last.out = Bool(TRUE)

\* two consecutive vertices of the area's local footprint coincide
HasZeroLengthEdge ==
    LET c == Coords(AreaLocalRing)
    IN  \E i \in 1..Len(c) : c[i] = c[(i % Len(c)) + 1]

\* C12 (as the spec states it): 'not a rectangle' and 'not contained' are
\* reported as False, but a footprint with a zero-length edge makes
\* validate_bounding_box raise instead of returning a boolean.
C12_ZeroLengthEdgeRaises ==
    ( /\ last.op = "validate_bounding_box"
      /\ BothFootprints
      /\ HasZeroLengthEdge )
    => last.out.kind = "raise"

\* C12 (amended): for a footprint of positive area validate_bounding_box
\* never raises: 'not a rectangle', 'not contained' and a zero-length edge
\* (two consecutive identical vertices) are all reported as False.
C12_AlwaysBoolean ==
    ( /\ last.op = "validate_bounding_box"
      /\ BothFootprints
      /\ PolyArea2(AreaLocalRing) > 0 )
    => /\ last.out.kind = "bool"
       /\ HasZeroLengthEdge => last.out = Bool(FALSE)
       /\ SomeVertexOutside => last.out = Bool(FALSE)
       /\ area_bbox.ring = Parallelogram => last.out = Bool(FALSE)

\* the four-vertex footprint with a repeated vertex, inside the depot
C12_Witness ==
    /\ last.op = "validate_bounding_box"
    /\ BothFootprints
    /\ area_bbox.ring = DegenerateQuad
    /\ HasZeroLengthEdge
    /\ ~SomeVertexOutside
    /\ PolyArea2(AreaLocalRing) > 0
    /\ last.out = Bool(FALSE)

\* the centroid of the footprint the depot has now, worked out by hand for
\* the two depot footprints
CurrentCentroid ==
    IF depot_bbox.ring = DepotBox THEN <<55000, 58000>> ELSE <<57333, 57467>>

\* a WGS84 ring as it lies in the local frame centred on CurrentCentroid
InCurrentFrame(ring) ==
    [i \in 1..Len(ring) |->
        << RoundDiv(ring[i][1] - CurrentCentroid[1], LonUnitsPerCm),
           RoundDiv(ring[i][2] - CurrentCentroid[2], LatUnitsPerCm) >>]

\* C13: after any sequence of setting, replacing and clearing the depot's
\* footprint, local_projection, global_to_local, local_to_global and
\* bounding_box_local give None exactly when the footprint is absent now, and
\* otherwise work in the frame centred on the centroid of the footprint as
\* it is now.
C13_ProjectionIsCurrent ==
    /\ last.op \in {"local_projection", "global_to_local", "local_to_global",
                    "depot_bounding_box_local"}
         => (last.out.kind = "none" <=> ~depot_bbox.present)
    /\ (last.op = "local_projection" /\ depot_bbox.present)
         => last.out = ProjectionOut(CurrentCentroid)
    /\ (last.op = "depot_bounding_box_local" /\ depot_bbox.present)
         => last.out = PolygonOut(InCurrentFrame(depot_bbox.ring))
    /\ (last.op = "global_to_local" /\ depot_bbox.present)
         => \E ring \in GlobalProbes : last.out = PolygonOut(InCurrentFrame(ring))
    /\ (last.op = "local_to_global" /\ depot_bbox.present)
         => \A ring \in LocalProbes :
              last.out = PolygonOut(
                  [i \in 1..Len(ring) |->
                      << CurrentCentroid[1] + ring[i][1] * LonUnitsPerCm,
                         CurrentCentroid[2] + ring[i][2] * LatUnitsPerCm >>])

\* the projection read from a depot that has the second footprint
C13_Witness ==
    /\ depot_bbox.present
    /\ depot_bbox.ring = DepotTrapezoid
    /\ last.op = "local_projection"
    /\ last.out = ProjectionOut(<<57333, 57467>>)

\* the largest coordinate difference between corresponding vertices
MaxDisplacement(p, q) ==
    LET d(i) == IF Abs(p[i][1] - q[i][1]) > Abs(p[i][2] - q[i][2])
                THEN Abs(p[i][1] - q[i][1]) ELSE Abs(p[i][2] - q[i][2])
        m[i \in 0..Len(p)] == IF i = 0 THEN 0
                             ELSE IF d(i) > m[i - 1] THEN d(i) ELSE m[i - 1]
    IN  m[Len(p)]

\* an upper bound on twice the area between two rings whose corresponding
\* vertices are at most d apart in each coordinate: every edge sweeps at
\* most (its length + 2d) * 2d
SweptArea2Bound(p, d) ==
    LET e(i) == Abs(p[i + 1][1] - p[i][1]) + Abs(p[i + 1][2] - p[i][2])
        acc[i \in 0..(Len(p) - 1)] ==
            IF i = 0 THEN 0 ELSE acc[i - 1] + 2 * (e(i) + 2 * d) * 2 * d
    IN  acc[Len(p) - 1]

DimensionsAvailable ==
    /\ area.area_type \in {"LINE", "DIRECT_ONESIDE"}
    /\ area.area_type = "LINE" => area.has_row_count
    /\ HasDims
    /\ direct_area_angle = PARK_ANGLE

\* C15 (as the spec states it): set_bounding_box_from_local on an area whose
\* depot has no footprint fails with the missing-depot-footprint error,
\* whether or not the vehicle dimensions are available.
C15_DepotCheckedFirst ==
    (last.op = "set_bounding_box_from_local" /\ ~depot_bbox.present)
    => last.out = Raise("ValueError:depot")

\* C15 (amended): set_bounding_box_from_local on an area whose depot has no
\* footprint always fails; it fails with the missing-depot-footprint error
\* when the area's length and width are available.  The dimensions are
\* looked at first: an area without vehicle type fails with the
\* missing-area-dimensions error, and whatever error the sizing raises comes
\* before the depot check.
C15_NoDepotFootprintFails ==
    (last.op = "set_bounding_box_from_local" /\ ~depot_bbox.present)
    => /\ last.out.kind = "raise"
       /\ DimensionsAvailable => last.out = Raise("ValueError:depot")
       /\ ~area.vehicle_type.present => last.out = Raise("ValueError:dimensions")
       /\ ~DimensionsAvailable => last.out # Raise("ValueError:depot")

C15_Witness ==
    /\ last.op = "set_bounding_box_from_local"
    /\ ~depot_bbox.present
    /\ DimensionsAvailable
    /\ last.out = Raise("ValueError:depot")

\* C16: set_bounding_box_from_local fails with the missing-area-dimensions
\* error whenever vehicle length or width is absent: without a vehicle type
\* and with a vehicle type whose length and width are unset.
C16_MissingDimensionsError ==
    (last.op = "set_bounding_box_from_local" /\ ~HasDims)
    => last.out = Raise("ValueError:dimensions")

\* C17 (as the spec states it): placing an area does not persist the
\* polygon: the stored footprint is the same before and after the call.
C17_PlacementNotPersisted ==
    [][last'.op = "set_bounding_box_from_local" => area_bbox' = area_bbox]_vars

\* C17 (amended): placing an area returns nothing and stores the computed
\* polygon as the area's footprint (the corner of the rectangle that the
\* rotation keeps fixed lies at the given origin); a call that fails leaves
\* the stored footprint as it was.  The depot's footprint, the area's
\* attributes and the angle setting are never modified.
C17_PlacementStored ==
    [][last'.op = "set_bounding_box_from_local" =>
        /\ depot_bbox' = depot_bbox
        /\ area' = area
        /\ direct_area_angle' = direct_area_angle
        /\ last'.out.kind \in {"none", "raise"}
        /\ last'.out.kind = "raise" => area_bbox' = area_bbox
        /\ last'.out.kind = "none" =>
             /\ area_bbox'.present
             /\ AreaBoundingBoxLocal(area_bbox', depot_bbox').ring[4] = last'.origin]_vars

\* a placement that replaced the footprint the area had
C17_Witness ==
    /\ last.op = "set_bounding_box_from_local"
    /\ last.out = NoneOut
    /\ last.origin = <<3000, 2500>>
    /\ area_bbox.present
    /\ AreaLocalRing[4] = <<3000, 2500>>
    /\ AreaLocalRing[1] # AreaLocalRing[4]

\* the area's local footprint has four vertices, the first of them distinct
\* from its two neighbours
FootprintTileable ==
    /\ BothFootprints
    /\ Len(Coords(AreaLocalRing)) = 4
    /\ ~FirstEdgeDegenerate

ConvexQuadrilateral(ring) ==
    /\ Len(ring) = 5
    /\ ring[5] = ring[1]
    /\ \A i, j \in 1..4 : i # j => ring[i] # ring[j]
    /\ LET turn(i) == Cross(Minus(ring[(i % 4) + 1], ring[i]),
                            Minus(ring[((i + 1) % 4) + 1], ring[(i % 4) + 1]))
       IN  \/ \A i \in 1..4 : turn(i) > 0
           \/ \A i \in 1..4 : turn(i) < 0

C20_NoDimensionsNoRaise ==
    (last.op = "generate_parking_spaces" /\ ~HasDims)
    => \/ last.out.kind = "none"
       \/ last.out.kind = "list" /\ Len(last.out.polys) = 0

\* C21: validate_bounding_box is a pure query: it changes neither the
\* area's nor the depot's stored footprint, and it returns a boolean that a
\* second call on the unmutated area and depot returns again.
C21_ValidateIsPure ==
    [][last'.op = "validate_bounding_box" =>
        /\ area_bbox' = area_bbox
        /\ depot_bbox' = depot_bbox
        /\ area' = area
        /\ last'.out.kind = "bool"
        /\ last'.out = ValidateBoundingBox(area_bbox', depot_bbox')]_vars

\* a footprint found invalid and still stored
C21_Witness ==
    /\ last.op = "validate_bounding_box"
    /\ depot_bbox.present
    /\ area_bbox.present
    /\ area_bbox.ring = OverlapRect
    /\ last.out = Bool(FALSE)

\* C22: in every state reached by placing areas and by setting or replacing
\* the depot's footprint, an area footprint that is present is contained in
\* the depot's footprint, is a rectangle with 4 distinct vertices, and has
\* positive area.
C22_PlacedFootprintsValid ==
    area_bbox.present =>
        /\ depot_bbox.present
        /\ ~SomeVertexOutside
        /\ Len(Coords(AreaLocalRing)) = 4
        /\ \A i, j \in 1..4 : i # j => AreaLocalRing[i] # AreaLocalRing[j]
        /\ RightAngles(Coords(AreaLocalRing)) = Bool(TRUE)
        /\ PolyArea2(AreaLocalRing) > 0

C25_LineIgnoresAngle ==
    ( /\ LineDivisible
      /\ HasDims
      /\ direct_area_angle # PARK_ANGLE )
    => /\ last.op = "length" =>
            /\ last.out.kind = "value"
            /\ last.out.val * area.row_count =
                 area.capacity * (spacing + area.vehicle_type.length) * FxScale
       /\ last.op = "width" =>
            /\ last.out.kind = "value"
            /\ last.out.val =
                 area.row_count * (area.vehicle_type.width + spacing) * FxScale
       /\ (last.op = "generate_parking_spaces" /\ FootprintTileable) =>
            last.out.kind = "list"

\* C30: whenever set_bounding_box_from_local fails (dimensions unavailable,
\* depot without footprint, DIRECT_TWOSIDE layout, changed angle setting),
\* the footprint the area had and the depot's footprint are left as they
\* were before the call.
C30_FailureKeepsFootprints ==
    [][(last'.op = "set_bounding_box_from_local" /\ last'.out.kind = "raise") =>
        /\ area_bbox' = area_bbox
        /\ depot_bbox' = depot_bbox]_vars

\* a failed placement on an area that has a footprint
C30_Witness ==
    /\ last.op = "set_bounding_box_from_local"
    /\ last.out.kind = "raise"
    /\ area_bbox.present
    /\ depot_bbox.present

----------------------------------------------------------------------------
(* Properties of placed, reordered and skewed footprints (SpecShape) *)

\* Area.length and Area.width on the centimetre grid
SemanticLength == RoundDiv(Length(area, direct_area_angle).val, FxScale)
SemanticWidth == RoundDiv(Width(area, direct_area_angle).val, FxScale)

\* v lies d cm from o in the direction of angle (degrees, counter-clockwise
\* from local +X), to the centimetre
EdgeFrom(o, v, d, angle) ==
    /\ Abs((v[1] - o[1]) * FxScale - d * Cos(angle)) <= FxScale
    /\ Abs((v[2] - o[2]) * FxScale - d * Sin(angle)) <= FxScale

\* C24: the rectangle built by set_bounding_box_from_local(origin, angle)
\* has origin as one of its four corners, a corner Area.length away from
\* origin in the direction of +X turned counter-clockwise by angle, and a
\* corner Area.width away from origin in the direction of +Y turned
\* counter-clockwise by angle.
C24_RectangleGeometry ==
    (last.op = "set_bounding_box_from_local" /\ last.out = NoneOut) =>
        LET c == Coords(AreaLocalRing)
        IN  /\ Len(c) = 4
            /\ \E i \in 1..4 : c[i] = last.origin
            /\ \E i \in 1..4 :
                 EdgeFrom(last.origin, c[i], SemanticLength, last.angle)
            /\ \E i \in 1..4 :
                 EdgeFrom(last.origin, c[i], SemanticWidth, last.angle + 90)

\* a rectangle placed at 30 degrees, its length edge pointing up and right
C24_Witness ==
    /\ last.op = "set_bounding_box_from_local"
    /\ last.out = NoneOut
    /\ last.angle = 30
    /\ last.origin = <<3000, 2500>>
    /\ \E i \in 1..4 :
         /\ AreaLocalRing[i][1] > 3000
         /\ AreaLocalRing[i][2] > 2500
         /\ EdgeFrom(last.origin, AreaLocalRing[i], SemanticLength, 30)

\* the two edges generate_parking_spaces measures at the first vertex
FirstEdge == Minus(AreaLocalRing[2], AreaLocalRing[1])
SecondEdge == Minus(AreaLocalRing[4], AreaLocalRing[1])

\* the first parking space is laid with the vehicle length along edge e
RowsAlong(e) ==
    LET space == last.out.polys[1]
        row == Minus(space[2], space[1])
        len == VecLen(e)
    IN  /\ Abs(row[1] * len - area.vehicle_type.length * e[1]) <= 2 * len
        /\ Abs(row[2] * len - area.vehicle_type.length * e[2]) <= 2 * len

\* C26: in LINE tiling of a footprint whose two edges measure the area's
\* length and width, in either vertex order, the rows run along the edge
\* that measures the length; when both pairings are equally close (a square
\* footprint of a square area) the rows run along the second edge, from the
\* first vertex to the fourth.
C26_RowAxis ==
    ( /\ last.op = "generate_parking_spaces"
      /\ area.area_type = "LINE"
      /\ last.out.kind = "list"
      /\ FootprintTileable )
    => LET len1 == VecLen(FirstEdge)
           len2 == VecLen(SecondEdge)
       IN  /\ ( /\ SemanticLength # SemanticWidth
                /\ Abs(len1 - SemanticLength) <= 1
                /\ Abs(len2 - SemanticWidth) <= 1 ) => RowsAlong(FirstEdge)
           /\ ( /\ SemanticLength # SemanticWidth
                /\ Abs(len2 - SemanticLength) <= 1
                /\ Abs(len1 - SemanticWidth) <= 1 ) => RowsAlong(SecondEdge)
           /\ ( /\ SemanticLength = SemanticWidth
                /\ len1 = SemanticLength
                /\ len2 = SemanticLength ) => RowsAlong(SecondEdge)

\* a square LINE area tiled on its square footprint
C26_Witness ==
    /\ last.op = "generate_parking_spaces"
    /\ area.area_type = "LINE"
    /\ last.out.kind = "list"
    /\ FootprintTileable
    /\ SemanticLength = SemanticWidth
    /\ VecLen(FirstEdge) = SemanticLength
    /\ VecLen(SecondEdge) = SemanticLength
    /\ RowsAlong(SecondEdge)
    /\ ~RowsAlong(FirstEdge)

\* the area's footprint is one that set_bounding_box_from_local produces
FootprintAsPlaced ==
    /\ BothFootprints
    /\ \E origin \in TurnOrigins, angle \in TurnAngles :
         area_bbox = BoxOf(LocalToGlobal(depot_bbox,
                        RotatedBox(origin, Length(area, PARK_ANGLE).val,
                                   Width(area, PARK_ANGLE).val, angle)))

\* every vertex of the polygon is at least d cm inside every edge line of
\* the (convex) ring
InsetBy(polygon, ring, d) ==
    LET sign == IF SignedArea2(ring) >= 0 THEN 1 ELSE -1
    IN  \A i \in 1..(Len(ring) - 1) : \A j \in 1..(Len(polygon) - 1) :
            LET edge == Minus(ring[i + 1], ring[i])
            IN  sign * Cross(edge, Minus(polygon[j], ring[i])) >= d * VecLen(edge)

\* C27: for an area whose footprint was produced by
\* set_bounding_box_from_local, every parking space generate_parking_spaces
\* returns lies inside the area's footprint: a LINE space half a spacing
\* (to the centimetre) inside every edge, a DIRECT_ONESIDE space at the
\* park angle inside every edge, for all capacities and row counts the
\* area constraints allow.
C27_SpacesInsideFootprint ==
    ( /\ last.op = "generate_parking_spaces"
      /\ last.out.kind = "list"
      /\ AreaConstraintHolds
      /\ direct_area_angle = PARK_ANGLE
      /\ FootprintAsPlaced )
    => \A k \in 1..Len(last.out.polys) :
         /\ Within(last.out.polys[k], AreaLocalRing)
         /\ InsetBy(last.out.polys[k], AreaLocalRing, 0)
         /\ area.area_type = "LINE" =>
              InsetBy(last.out.polys[k], AreaLocalRing, spacing \div 2 - 2)

\* a DIRECT_ONESIDE area of the largest capacity tiled on a footprint placed
\* at 135 degrees
C27_Witness ==
    /\ last.op = "generate_parking_spaces"
    /\ last.out.kind = "list"
    /\ area.area_type = "DIRECT_ONESIDE"
    /\ area.capacity = MaxShapeCapacity
    /\ FootprintAsPlaced
    /\ AreaLocalRing[4] = <<0, 0>>
    /\ AreaLocalRing[1][1] < 0
    /\ AreaLocalRing[1][2] > 0
    /\ Len(last.out.polys) = MaxShapeCapacity
    /\ \A k \in 1..MaxShapeCapacity : Within(last.out.polys[k], AreaLocalRing)

\* the unit vectors of u and v have a dot product of at most 0.01 in
\* absolute value; a zero vector has no unit vector
NearRightAngle(u, v) ==
    /\ VecLen(u) > 0
    /\ VecLen(v) > 0
    /\ 100 * Abs(u[1] * v[1] + u[2] * v[2]) <= VecLen(u) * VecLen(v)

\* C28: a contained footprint of positive area with exactly four exterior
\* vertices is accepted by validate_bounding_box exactly when at each of
\* the four vertices the unit vectors of the two edges have a dot product
\* of absolute value <= 0.01; a parallelogram and a trapezoid are rejected.
C28_RightAngleTolerance ==
    ( /\ last.op = "validate_bounding_box"
      /\ BothFootprints
      /\ ~SomeVertexOutside
      /\ PolyArea2(AreaLocalRing) > 0
      /\ Len(Coords(AreaLocalRing)) = 4 )
    => LET c == Coords(AreaLocalRing)
           edge(i) == Minus(c[(i % 4) + 1], c[i])
       IN  /\ last.out \in {Bool(TRUE), Bool(FALSE)}
           /\ last.out = Bool(TRUE) <=>
                \A i \in 1..4 : NearRightAngle(edge(i), edge((i % 4) + 1))
           /\ area_bbox.ring \in {SkewedQuad(11), SkewedQuad(300), TrapezoidQuad}
                => last.out = Bool(FALSE)
           /\ area_bbox.ring \in {SkewedQuad(0), SkewedQuad(10)}
                => last.out = Bool(TRUE)

\* the quadrilateral skewed just beyond the tolerance, rejected
C28_Witness ==
    /\ last.op = "validate_bounding_box"
    /\ area_bbox = BoxOf(SkewedQuad(11))
    /\ ~SomeVertexOutside
    /\ PolyArea2(AreaLocalRing) > 0
    /\ last.out = Bool(FALSE)

\* an angle in degrees brought into (-180, 180]
NormalisedAngle(angle) == ((angle + 179) % 360) - 179

\* C29: read right after a successful set_bounding_box_from_local(origin,
\* angle), Area.x and Area.y return the coordinates of origin and
\* Area.alpha returns angle brought into (-180, 180] degrees.
C29_PlacementReadBack ==
    [][(last.op = "set_bounding_box_from_local" /\ last.out = NoneOut) =>
        /\ last'.op = "x" => last'.out = Value(last.origin[1])
        /\ last'.op = "y" => last'.out = Value(last.origin[2])
        /\ last'.op = "alpha" => last'.out = Value(NormalisedAngle(last.angle))]_vars

\* alpha read from a footprint placed at 270 degrees and origin (3000, 2500)
C29_Witness ==
    /\ last.op = "alpha"
    /\ last.out = Value(-90)
    /\ FootprintAsPlaced
    /\ AreaLocalRing[4] = <<3000, 2500>>
    /\ AreaLocalRing[1][1] = 3000
    /\ AreaLocalRing[1][2] < 2500

====
